---- MODULE Spec2Model ----
(***************************************************************************)
(* WaniKani example sentence fetcher (src/src/App.js).                     *)
(*                                                                         *)
(* The App component keeps its state in React hooks (apiToken, level,      *)
(* loading, progressCount, groups, error).  handleFetch is an async        *)
(* function: it runs synchronously up to its first await (the fetch of a   *)
(* page inside fetchAllPages) and is resumed once per page response.  The  *)
(* Fetch button is never disabled, so several handleFetch invocations may  *)
(* be suspended at the same time; each one keeps the level it captured     *)
(* when it was started.                                                    *)
(*                                                                         *)
(* JavaScript values are modelled as follows: a string is a TLA+ string,   *)
(* "" standing for every falsy value of a text field (undefined, null,     *)
(* ""); the text of the level input is a sequence of one-character         *)
(* strings, so that it can be parsed; an array is a sequence.              *)
(***************************************************************************)
EXTENDS Integers, Sequences, FiniteSets, Bags, TLC

(***************************************************************************)
(* Bounds of the model.                                                    *)
(***************************************************************************)
MaxPages == 2      \* longest page chain the upstream serves
MaxRuns == 2       \* handleFetch invocations that may be pending together

(***************************************************************************)
(* Strings.                                                                *)
(***************************************************************************)
RECURSIVE Str(_)
\* The JavaScript string whose characters are cs.
Str(cs) == IF cs = <<>> THEN "" ELSE Head(cs) \o Str(Tail(cs))

RECURSIVE encodeURIComponent(_)
\* Digits and letters are kept, the comma is percent-encoded.
encodeURIComponent(cs) ==
  IF cs = <<>> THEN ""
  ELSE (IF Head(cs) = "," THEN "%2C"
        ELSE IF Head(cs) = " " THEN "%20"
        ELSE Head(cs)) \o encodeURIComponent(Tail(cs))

\* The texts the user types into the Level field.
LevelInputs ==
  { <<"1">>, <<"4", ",", "5">>, <<"a", "b", "c">> }

Digits == <<"0", "1", "2", "3", "4", "5", "6", "7", "8", "9">>
IsDigit(c) == \E d \in DOMAIN Digits : Digits[d] = c
DigitValue(c) == (CHOOSE d \in DOMAIN Digits : Digits[d] = c) - 1

\* a non-empty run of digits
IsInteger(cs) == cs # <<>> /\ \A i \in DOMAIN cs : IsDigit(cs[i])

RECURSIVE ToInteger(_)
ToInteger(cs) ==
  IF cs = <<>> THEN 0
  ELSE 10 * ToInteger(SubSeq(cs, 1, Len(cs) - 1)) + DigitValue(cs[Len(cs)])

\* the index of the first c in cs, 0 if there is none
IndexOf(cs, c) ==
  LET at == { i \in DOMAIN cs : cs[i] = c }
  IN IF at = {} THEN 0 ELSE CHOOSE i \in at : \A j \in at : i <= j

RECURSIVE Split(_, _)
\* cs.split(c)
Split(cs, c) ==
  LET i == IndexOf(cs, c)
  IN IF i = 0 THEN << cs >>
     ELSE << SubSeq(cs, 1, i - 1) >> \o Split(SubSeq(cs, i + 1, Len(cs)), c)

RECURSIVE Trim(_)
Trim(cs) ==
  IF cs # <<>> /\ Head(cs) = " " THEN Trim(Tail(cs))
  ELSE IF cs # <<>> /\ cs[Len(cs)] = " " THEN Trim(SubSeq(cs, 1, Len(cs) - 1))
  ELSE cs

\* The values of the API token field: empty, or a token.
Token == "bd3399a6-3daa-45c7-96b2-96b612c40d92"
Tokens == { "", Token }

(***************************************************************************)
(* Subjects as the upstream API returns them.                              *)
(*                                                                         *)
(* An element of an array of data is an object, null or a string; an       *)
(* object carries the text fields the extractor probes ("" when absent).   *)
(***************************************************************************)
NoText ==
  [ kind |-> "object", ja |-> "", japanese |-> "", jp |-> "", ja_text |-> "",
    text |-> "", en |-> "", english |-> "", en_text |-> "", meaning |-> "" ]

NullElement == [NoText EXCEPT !.kind = "null"]
StringElement == [NoText EXCEPT !.kind = "string"]

Sentence(ja, en) == [NoText EXCEPT !.ja = ja, !.en = en]
Meaning(m) == [NoText EXCEPT !.meaning = m]

\* subject.data: hasData is FALSE when the subject has no data object;
\* context_sentences is [isArray, items]; arrays lists the other array-valued
\* fields of data in key order, as <<key, items>>; the remaining fields are
\* strings.  level is the level the upstream files the subject under (the
\* levels filter of the subjects endpoint reads it; the App never does).
NoArray == [isArray |-> FALSE, items |-> <<>>]
ArrayOf(items) == [isArray |-> TRUE, items |-> items]

SubjectOf(id, lvl, hasData, ctx, arrays, characters, slug) ==
  [ id |-> id, level |-> lvl, hasData |-> hasData, context_sentences |-> ctx,
    arrays |-> arrays, characters |-> characters, slug |-> slug ]

\* context sentences, another sentence-like array, characters and meanings
SubjCtx ==
  SubjectOf(1, 4, TRUE,
            ArrayOf(<< Sentence("neko ga iru", "there is a cat"),
                       [NoText EXCEPT !.japanese = "neko da"] >>),
            << <<"examples", << [NoText EXCEPT !.text = "rei"] >> >>,
               <<"meanings", << Meaning("cat") >> >> >>,
            "neko", "cat")

\* an empty context_sentences array, characters and meanings
SubjEmptyCtx ==
  SubjectOf(2, 5, TRUE, ArrayOf(<<>>),
            << <<"meanings", << Meaning("dog") >> >> >>, "inu", "dog")

\* a context_sentences array holding null
SubjNullCtx ==
  SubjectOf(3, 1, TRUE, ArrayOf(<< NullElement >>), <<>>, "tori", "bird")

\* no context_sentences; sentences under another key, after an array of strings
SubjOther ==
  SubjectOf(4, 1, TRUE, NoArray,
            << <<"parts_of_speech", << StringElement >> >>,
               <<"meanings", << Meaning("fish") >> >>,
               <<"sentences", << [NoText EXCEPT !.english = "a fish swims"],
                                 StringElement >> >> >>,
            "", "fish")

\* data without sentences and without characters
SubjBare == SubjectOf(5, 1, TRUE, NoArray, <<>>, "", "")

\* no data object at all
SubjNoData == SubjectOf(6, 5, FALSE, NoArray, <<>>, "", "")

Subjects ==
  { SubjCtx, SubjEmptyCtx, SubjNullCtx, SubjOther, SubjBare, SubjNoData }

(***************************************************************************)
(* extractSentencesFromSubject.  The result is [threw, value]: threw is    *)
(* TRUE when the call raises a TypeError (a property read on null), and    *)
(* value is the array returned otherwise.                                  *)
(***************************************************************************)
\* a || b on text fields
Or(a, b) == IF a # "" THEN a ELSE b

Returned(value) == [threw |-> FALSE, value |-> value]
Thrown == [threw |-> TRUE, value |-> <<>>]

\* subject.data || {}
DataOf(subject) ==
  IF subject.hasData THEN subject
  ELSE [subject EXCEPT !.context_sentences = NoArray, !.arrays = <<>>,
                       !.characters = "", !.slug = ""]

\* A property read on an element: only null has no properties.
HasNull(items) == \E i \in DOMAIN items : items[i].kind = "null"

ContextRecord(subject, s, i) ==
  [ id |-> ToString(subject.id) \o "-ctx-" \o ToString(i),
    japanese |-> Or(s.ja, Or(s.japanese, Or(s.jp, Or(s.ja_text, s.text)))),
    english |-> Or(s.en, Or(s.english, s.en_text)) ]

KeyRecord(subject, key, s, i) ==
  [ id |-> ToString(subject.id) \o "-" \o key \o "-" \o ToString(i),
    japanese |-> Or(s.ja, Or(s.japanese, s.text)),
    english |-> Or(s.en, s.english) ]

\* data.context_sentences.map(...), indices from 0
MapContext(subject, items) ==
  IF HasNull(items) THEN Thrown
  ELSE Returned([i \in DOMAIN items |-> ContextRecord(subject, items[i], i - 1)])

\* val.map(...) for the array under key
MapKey(subject, key, items) ==
  IF HasNull(items) THEN Thrown
  ELSE Returned([i \in DOMAIN items |-> KeyRecord(subject, key, items[i], i - 1)])

\* val.some(v => v && (v.ja || v.japanese || v.en || v.english || v.text))
looksLikeSentence(items) ==
  \E i \in DOMAIN items :
     /\ items[i].kind = "object"
     /\ Or(items[i].ja, Or(items[i].japanese,
           Or(items[i].en, Or(items[i].english, items[i].text)))) # ""

\* Array.isArray(val) && val.length && typeof val[0] === 'object'
\* (typeof null is 'object' as well)
IsObjectArray(items) ==
  /\ Len(items) > 0
  /\ items[1].kind \in {"object", "null"}

\* the first key of data, in key order, whose array looks like sentences; 0 if none
SentenceKey(arrays) ==
  LET hits == { k \in DOMAIN arrays :
                  IsObjectArray(arrays[k][2]) /\ looksLikeSentence(arrays[k][2]) }
  IN IF hits = {} THEN 0 ELSE CHOOSE k \in hits : \A j \in hits : k <= j

\* (data.meanings && data.meanings[0] && data.meanings[0].meaning) || ''
FirstMeaning(arrays) ==
  LET ms == { k \in DOMAIN arrays : arrays[k][1] = "meanings" }
  IN IF ms = {} THEN ""
     ELSE LET items == arrays[CHOOSE k \in ms : TRUE][2]
          IN IF Len(items) = 0 \/ items[1].kind # "object" THEN ""
             ELSE items[1].meaning

FallbackRecord(subject, data) ==
  [ id |-> ToString(subject.id) \o "-fallback-0",
    japanese |-> data.characters,
    english |-> FirstMeaning(data.arrays) ]

\* extractSentencesFromSubject with the characters fallback tried first
extractFallbackFirst(subject) ==
  LET data == DataOf(subject)
      ctx == data.context_sentences
      k == SentenceKey(data.arrays)
  IN IF data.characters # ""
       THEN Returned(<< FallbackRecord(subject, data) >>)
     ELSE IF ctx.isArray /\ Len(ctx.items) > 0
       THEN MapContext(subject, ctx.items)
     ELSE IF k # 0
       THEN MapKey(subject, data.arrays[k][1], data.arrays[k][2])
     ELSE Returned(<<>>)

extractSentencesFromSubject(subject) ==
  LET data == DataOf(subject)
      ctx == data.context_sentences
      k == SentenceKey(data.arrays)
  IN IF ctx.isArray /\ Len(ctx.items) > 0
       THEN MapContext(subject, ctx.items)
     ELSE IF k # 0
       THEN MapKey(subject, data.arrays[k][1], data.arrays[k][2])
     ELSE IF data.characters # ""
       THEN Returned(<< FallbackRecord(subject, data) >>)
     ELSE Returned(<<>>)

(***************************************************************************)
(* The loop of handleFetch over the fetched subjects.  The result is       *)
(* [threw, value]: the first extraction that raises ends the loop.         *)
(***************************************************************************)
SubjectGroup(s, sentences) ==
  [ subject_id |-> s.id, slug |-> DataOf(s).slug,
    characters |-> DataOf(s).characters, sentences |-> sentences ]

RECURSIVE CollectFrom(_, _)
CollectFrom(subjects, collected) ==
  IF subjects = <<>> THEN Returned(collected)
  ELSE LET s == Head(subjects)
           r == extractSentencesFromSubject(s)
       IN IF r.threw THEN Thrown
          ELSE CollectFrom(Tail(subjects),
                           IF Len(r.value) > 0
                             THEN Append(collected, SubjectGroup(s, r.value))
                             ELSE collected)

Collect(subjects) == CollectFrom(subjects, <<>>)

(***************************************************************************)
(* The level-range parser of the specification (the README's               *)
(* parseLevels): the set of levels a level specification denotes.          *)
(***************************************************************************)
TokenLevels(token) ==
  LET t == Trim(token)
      h == IndexOf(t, "-")
      a == Trim(SubSeq(t, 1, h - 1))
      b == Trim(SubSeq(t, h + 1, Len(t)))
  IN IF h # 0
       THEN IF IsInteger(a) /\ IsInteger(b)
              THEN ToInteger(a) .. ToInteger(b)
              ELSE {}
     ELSE IF IsInteger(t) THEN { ToInteger(t) } ELSE {}

parseLevels(input) ==
  LET tokens == Split(input, ",")
  IN UNION { TokenLevels(tokens[i]) : i \in DOMAIN tokens }

(***************************************************************************)
(* The upstream API.  The subjects endpoint filters by its levels          *)
(* parameter, a comma-separated list of integers; a page of the collection *)
(* has a data array or none, and a cursor to the next page ("url"), a null *)
(* cursor or no pages object at all.                                       *)
(***************************************************************************)
QueryLevels(lvl) ==
  LET tokens == Split(lvl, ",")
  IN { ToInteger(tokens[i]) : i \in { j \in DOMAIN tokens : IsInteger(tokens[j]) } }

\* the subjects of the arrays the upstream may put on one page
PageArrays ==
  { <<>>, <<SubjCtx, SubjEmptyCtx>>, <<SubjOther, SubjBare>> }
    \cup { <<s>> : s \in Subjects }

Filtered(subjects, lvl) ==
  SelectSeq(subjects, LAMBDA s : s.level \in QueryLevels(lvl))

PageOf(hasData, data, pages) ==
  [hasData |-> hasData, data |-> data, pages |-> pages]

\* the bodies a request for the levels lvl may be answered with
PagesFor(lvl) ==
  { PageOf(TRUE, Filtered(a, lvl), c) : a \in PageArrays,
                                        c \in {"url", "null", "absent"} }
    \cup { PageOf(FALSE, <<>>, c) : c \in {"url", "null", "absent"} }

Pages == [lvl \in LevelInputs |-> PagesFor(lvl)]

\* a smaller catalogue: one subject or none, a cursor or a null cursor
FewPagesFor(lvl) ==
  { PageOf(TRUE, Filtered(a, lvl), c) : a \in { <<SubjCtx>>, <<SubjOther>> },
                                        c \in {"url", "null"} }

FewPages == [lvl \in LevelInputs |-> FewPagesFor(lvl)]

\* the non-success statuses
Failures ==
  { [status |-> 500, statusText |-> "Internal Server Error"],
    [status |-> 404, statusText |-> "Not Found"] }

(***************************************************************************)
(* fetchAllPages                                                           *)
(***************************************************************************)
\* new Error(`HTTP ${res.status}: ${res.statusText}`).message
HttpMessage(res) == "HTTP " \o ToString(res.status) \o ": " \o res.statusText

\* Accumulate with the page put in front of the accumulated array
AccumulateInFront(all, json) == IF json.hasData THEN json.data \o all ELSE all

\* if (json.data && Array.isArray(json.data)) all = all.concat(json.data)
Accumulate(all, json) == IF json.hasData THEN all \o json.data ELSE all

\* NextUrl never following the cursor
NextUrlDropped(json, url) == 0

\* json.pages && json.pages.next_url ? json.pages.next_url : null
\* A URL is the index of the page it asks for; 0 is null.
NextUrl(json, url) == IF json.pages = "url" THEN url + 1 ELSE 0

(***************************************************************************)
(* The export serializer: handleSaveJSON and exportText.                   *)
(***************************************************************************)
RECURSIVE Join(_, _)
\* lines.join(sep)
Join(lines, sep) ==
  IF lines = <<>> THEN ""
  ELSE IF Len(lines) = 1 THEN lines[1]
  ELSE lines[1] \o sep \o Join(Tail(lines), sep)

RECURSIVE Flat(_)
\* the concatenation of a sequence of sequences
Flat(seqs) == IF seqs = <<>> THEN <<>> ELSE Head(seqs) \o Flat(Tail(seqs))

RECURSIVE KeysOf(_)
\* Object.keys of a level map (the App never builds one with two keys)
KeysOf(ks) ==
  IF ks = {} THEN <<>>
  ELSE LET k == CHOOSE x \in ks : TRUE IN << k >> \o KeysOf(ks \ {k})

Quoted(str) == "\"" \o str \o "\""

\* JSON.stringify of one sentence record
SentenceJSON(s) ==
  "{" \o Quoted("id") \o ":" \o Quoted(s.id) \o ","
      \o Quoted("japanese") \o ":" \o Quoted(s.japanese) \o ","
      \o Quoted("english") \o ":" \o Quoted(s.english) \o "}"

\* JSON.stringify of one subject group; an undefined slug or characters is
\* left out
GroupJSON(it) ==
  "{" \o Quoted("subject_id") \o ":" \o ToString(it.subject_id) \o ","
      \o (IF it.slug # "" THEN Quoted("slug") \o ":" \o Quoted(it.slug) \o ","
          ELSE "")
      \o (IF it.characters # ""
            THEN Quoted("characters") \o ":" \o Quoted(it.characters) \o ","
            ELSE "")
      \o Quoted("sentences") \o ":["
      \o Join([i \in DOMAIN it.sentences |-> SentenceJSON(it.sentences[i])], ",")
      \o "]}"

\* JSON.stringify(groups, null, 2), without the white space
JSONStringify(g) ==
  LET keys == KeysOf(DOMAIN g)
      entry(k) == Quoted(k) \o ":["
                    \o Join([i \in DOMAIN g[k] |-> GroupJSON(g[k][i])], ",")
                    \o "]"
  IN "{" \o Join([i \in DOMAIN keys |-> entry(keys[i])], ",") \o "}"

\* the line of one sentence in a text export
SentenceLine(s, option) ==
  IF option = "japanese" THEN s.japanese
  ELSE IF option = "english" THEN s.english
  ELSE s.japanese \o " \t " \o s.english

\* `\n## ${it.characters || it.slug || it.subject_id}` and the sentences
GroupLines(it, option) ==
  << "\n## " \o Or(it.characters, Or(it.slug, ToString(it.subject_id))) >>
    \o [i \in DOMAIN it.sentences |-> SentenceLine(it.sentences[i], option)]

\* the lines exportText pushes
TextLines(g, option) ==
  LET keys == KeysOf(DOMAIN g)
      level(k) == << "# " \o k >>
                    \o Flat([i \in DOMAIN g[k] |-> GroupLines(g[k][i], option)])
  IN Flat([i \in DOMAIN keys |-> level(keys[i])])

Options == { "japanese", "english", "both" }

\* `wanikani-sentences-level-${level}.json`
JSONFilename(lvl) == "wanikani-sentences-level-" \o Str(lvl) \o ".json"

\* `wanikani-sentences-level-${level}-${option}.txt`
TextFilename(lvl, option) ==
  "wanikani-sentences-level-" \o Str(lvl) \o "-" \o option \o ".txt"

(***************************************************************************)
(* The state of App, the pending invocations of handleFetch and the file   *)
(* delivery sink.                                                          *)
(***************************************************************************)
VARIABLES
  apiToken,       \* useState: the token field
  level,          \* useState: the text of the level field
  loading,        \* useState
  progressCount,  \* useState
  groups,         \* useState: level key -> array of subject groups
  error,          \* useState: "" is undefined
  pending,        \* the bag of suspended handleFetch invocations (their locals)
  last,           \* the latest step of a handleFetch invocation
  saved,          \* the file last handed to saveFile
  exported        \* the groups and the mode of that export

vars ==
  << apiToken, level, loading, progressCount, groups, error, pending, last,
     saved, exported >>

NoError == ""
NoGroups == [k \in {} |-> <<>>]

TokenMessage == "Please provide your WaniKani API token."
TransportMessage == "Failed to fetch"
NullMessage == "Cannot read properties of null (reading 'ja')"

\* `https://api.wanikani.com/v2/subjects?...&levels=${encodeURIComponent(level)}&per_page=500`
BaseUrl(lvl) ==
  "https://api.wanikani.com/v2/subjects?types=vocabulary&levels="
    \o encodeURIComponent(lvl) \o "&per_page=500"

\* `Level ${level}`
LevelKey(lvl) == "Level " \o Str(lvl)

\* The locals of an invocation: the token and the level it captured (the
\* Authorization header carries the token), the URL it built, the
\* page it asks for next (0: none), the array all of fetchAllPages, the
\* pages it was served, in order, and the number of requests it has issued.
Started(token, lvl) ==
  [ apiToken |-> token, level |-> lvl, baseUrl |-> BaseUrl(lvl), next |-> 0,
    all |-> <<>>, served |-> <<>>, requests |-> 0 ]

\* last: step is "none", "awaiting" (the invocation suspended again), "done"
\* (it reached setGroups) or "failed" (its catch block ran, with message
\* thrown and, for a non-success response, its status).
Step(step, inv, thrown, status) ==
  [step |-> step, inv |-> inv, thrown |-> thrown, status |-> status]

NoFile == [filename |-> "", content |-> "", type |-> ""]
NoExport == [groups |-> NoGroups, option |-> ""]

Init ==
  /\ apiToken \in Tokens
  /\ level = <<"1">>
  /\ loading = FALSE
  /\ progressCount = 0
  /\ groups = NoGroups
  /\ error = NoError
  /\ pending = EmptyBag
  /\ last = Step("none", Started("", <<>>), "", 0)
  /\ saved = NoFile
  /\ exported = NoExport

Suspend(inv) == pending (+) SetToBag({inv})
Resume(inv) == pending (-) SetToBag({inv})

\* catch (e) { setError(e.message || String(e)) } finally { setLoading(false) }
Catch(message) ==
  /\ error' = message
  /\ loading' = FALSE

\* handleFetch without its token check
handleFetchUnchecked ==
  /\ BagCardinality(pending) < MaxRuns
  /\ groups' = NoGroups
  /\ progressCount' = 0
  /\ LET inv == [Started(apiToken, level) EXCEPT !.next = 1, !.requests = 1]
     IN /\ error' = NoError
        /\ loading' = TRUE
        /\ pending' = Suspend(inv)
        /\ last' = Step("awaiting", inv, "", 0)
  /\ UNCHANGED <<apiToken, level, saved, exported>>

\* handleFetch up to its first await: the four resets, the token check and
\* the first request of fetchAllPages.
handleFetch ==
  /\ BagCardinality(pending) < MaxRuns
  /\ groups' = NoGroups
  /\ progressCount' = 0
  /\ IF apiToken = ""
       THEN /\ Catch(TokenMessage)
            /\ last' = Step("failed", Started(apiToken, level), TokenMessage, 0)
            /\ UNCHANGED pending
       ELSE LET inv == [Started(apiToken, level) EXCEPT !.next = 1, !.requests = 1]
            IN /\ error' = NoError
               /\ loading' = TRUE
               /\ pending' = Suspend(inv)
               /\ last' = Step("awaiting", inv, "", 0)
  /\ UNCHANGED <<apiToken, level, saved, exported>>

\* FetchNotOk exposing the subjects of the pages fetched so far
FetchNotOkPartial(inv, res) ==
  /\ Catch(HttpMessage(res))
  /\ groups' = (LevelKey(inv.level) :> Collect(inv.all).value)
  /\ pending' = Resume(inv)
  /\ last' = Step("failed", inv, HttpMessage(res), res.status)
  /\ UNCHANGED <<apiToken, level, progressCount, saved, exported>>

\* The awaited fetch resolves with a non-success status.
FetchNotOk(inv, res) ==
  /\ Catch(HttpMessage(res))
  /\ pending' = Resume(inv)
  /\ last' = Step("failed", inv, HttpMessage(res), res.status)
  /\ UNCHANGED <<apiToken, level, progressCount, groups, saved, exported>>

\* The awaited fetch rejects.
FetchRejects(inv) ==
  /\ Catch(TransportMessage)
  /\ pending' = Resume(inv)
  /\ last' = Step("failed", inv, TransportMessage, 0)
  /\ UNCHANGED <<apiToken, level, progressCount, groups, saved, exported>>

\* The awaited fetch resolves with the page json: the rest of the loop body
\* and, after the last page, the rest of handleFetch.
FetchPage(inv, json) ==
  LET all == Accumulate(inv.all, json)
      next == NextUrl(json, inv.next)
      got == [inv EXCEPT !.all = all, !.next = next,
                         !.served = Append(@, json)]
      collected == Collect(all)
  IN /\ next # 0 => inv.next < MaxPages
     /\ progressCount' = Len(all)
     /\ IF next # 0
          THEN LET inv2 == [got EXCEPT !.requests = @ + 1]
               IN /\ pending' = Suspend(inv2) (-) SetToBag({inv})
                  /\ last' = Step("awaiting", inv2, "", 0)
                  /\ UNCHANGED <<groups, error, loading>>
        ELSE IF collected.threw
          THEN /\ Catch(NullMessage)
               /\ pending' = Resume(inv)
               /\ last' = Step("failed", got, NullMessage, 0)
               /\ UNCHANGED groups
        ELSE /\ groups' = (LevelKey(inv.level) :> collected.value)
             /\ loading' = FALSE
             /\ pending' = Resume(inv)
             /\ last' = Step("done", got, "", 0)
             /\ UNCHANGED error
     /\ UNCHANGED <<apiToken, level, saved, exported>>

\* onChange of the two text fields
setApiToken(t) ==
  /\ t # apiToken
  /\ apiToken' = t
  /\ UNCHANGED << level, loading, progressCount, groups, error, pending, last,
                  saved, exported >>

setLevel(l) ==
  /\ l # level
  /\ level' = l
  /\ UNCHANGED << apiToken, loading, progressCount, groups, error, pending,
                  last, saved, exported >>

\* saveFile(filename, content, type): the download of a Blob
saveFile(filename, content, type) ==
  saved' = [filename |-> filename, content |-> content, type |-> type]

\* The export buttons are rendered when groups has a first key.
handleSaveJSON ==
  /\ DOMAIN groups # {}
  /\ saveFile(JSONFilename(level), JSONStringify(groups), "application/json")
  /\ exported' = [groups |-> groups, option |-> "json"]
  /\ UNCHANGED << apiToken, level, loading, progressCount, groups, error,
                  pending, last >>

exportText(option) ==
  /\ DOMAIN groups # {}
  /\ saveFile(TextFilename(level, option), Join(TextLines(groups, option), "\n"),
              "text/plain")
  /\ exported' = [groups |-> groups, option |-> option]
  /\ UNCHANGED << apiToken, level, loading, progressCount, groups, error,
                  pending, last >>

\* The awaited fetch of a pending invocation settles: with a non-success
\* status, with a rejection, or with a page of the catalogue.
Resumed ==
  \/ \E inv \in BagToSet(pending), res \in Failures : FetchNotOk(inv, res)
  \/ \E inv \in BagToSet(pending) : FetchRejects(inv)
  \/ \E inv \in BagToSet(pending) :
        \E json \in Pages[inv.level] : FetchPage(inv, json)

\* The same, the pages drawn from the smaller catalogue.
ResumedFew ==
  \/ \E inv \in BagToSet(pending), res \in Failures : FetchNotOk(inv, res)
  \/ \E inv \in BagToSet(pending) : FetchRejects(inv)
  \/ \E inv \in BagToSet(pending) :
        \E json \in FewPages[inv.level] : FetchPage(inv, json)

Edited ==
  \/ \E t \in Tokens : setApiToken(t)
  \/ \E l \in LevelInputs : setLevel(l)

Exported ==
  \/ handleSaveJSON
  \/ \E option \in Options : exportText(option)

\* Fetch is clicked while nothing is pending.
FetchWhenIdle == pending = EmptyBag /\ handleFetch

(***************************************************************************)
(* The App: every handler, with up to MaxRuns invocations of handleFetch   *)
(* pending together.                                                       *)
(***************************************************************************)
Next ==
  \/ handleFetch
  \/ Resumed
  \/ Edited
  \/ Exported

Spec == Init /\ [][Next]_vars

(***************************************************************************)
(* The parts of Spec the properties are checked under.                     *)
(*                                                                         *)
(* SequentialSpec: one fetch at a time over the whole catalogue of pages   *)
(* (the fetch-and-extract pipeline).  OverlapSpec: overlapping fetches     *)
(* over the smaller catalogue.  ExportSpec: one fetch at a time and the    *)
(* exports, over the smaller catalogue.                                    *)
(***************************************************************************)
SequentialNext ==
  \/ FetchWhenIdle
  \/ Resumed
  \/ Edited

SequentialSpec == Init /\ [][SequentialNext]_vars

OverlapNext ==
  \/ handleFetch
  \/ ResumedFew
  \/ Edited

OverlapSpec == Init /\ [][OverlapNext]_vars

ExportNext ==
  \/ FetchWhenIdle
  \/ ResumedFew
  \/ Edited
  \/ Exported

ExportSpec == Init /\ [][ExportNext]_vars

\* The awaited fetch of a pending invocation resolves with a page.
Paged ==
  \E inv \in BagToSet(pending) :
     \E json \in Pages[inv.level] : FetchPage(inv, json)

\* PaginationSpec: one fetch at a time, every request answered, and answered
\* by a page; the chain of pages ends at page MaxPages at the latest.
PaginationNext ==
  \/ FetchWhenIdle
  \/ Paged
  \/ Edited

PaginationSpec == Init /\ [][PaginationNext]_vars /\ WF_vars(Paged)

(***************************************************************************)
(* Properties.                                                             *)
(***************************************************************************)
\* the invocation of the latest handleFetch step
Latest == last.inv

\* the data arrays of the pages served, in page order; a page without a data
\* array counts as empty
RECURSIVE DataInOrder(_)
DataInOrder(served) ==
  IF served = <<>> THEN <<>>
  ELSE DataInOrder(SubSeq(served, 1, Len(served) - 1))
         \o (IF served[Len(served)].hasData THEN served[Len(served)].data
             ELSE <<>>)

\* the subject groups of the latest invocation, once it is done
Collected == groups[LevelKey(Latest.level)]

\* C1: whatever pages a fetch has been served, the array all of fetchAllPages
\* is the concatenation of their data arrays in page order, a page without a
\* data array adding nothing; a fetch whose every request was answered by a
\* page does not fail in fetchAllPages.
C1_FetchAllPagesConcatenates ==
  /\ \A inv \in BagToSet(pending) :
        /\ inv.all = DataInOrder(inv.served)
        /\ inv.requests = Len(inv.served) + 1
  /\ last.step \in {"done", "failed"} => Latest.all = DataInOrder(Latest.served)
  /\ last.step = "done" => Latest.requests = Len(Latest.served)

\* a fetch of two pages, both with subjects, has returned
C1_Witness ==
  /\ last.step = "done"
  /\ Len(Latest.served) = 2
  /\ Latest.served[1].hasData /\ Latest.served[1].data # <<>>
  /\ Latest.served[2].hasData /\ Latest.served[2].data # <<>>
  /\ Latest.served[1].data # Latest.served[2].data

\* the pages before the last one served carried a cursor
CursorsBefore(served, n) == \A k \in 1..n : served[k].pages = "url"

\* fetchAllPages of the latest invocation has returned: handleFetch went on
\* to the extraction, which ended in setGroups or raised
FetchReturned ==
  \/ last.step = "done"
  \/ last.step = "failed" /\ last.thrown = NullMessage

StatusLine(status) ==
  IF status = 500 THEN "HTTP 500: Internal Server Error"
  ELSE IF status = 404 THEN "HTTP 404: Not Found"
  ELSE "?"

\* the steps in which a pending fetch receives a non-success status
NotOkStep == pending' # pending /\ last'.step = "failed" /\ last'.status # 0

\* C2: a non-success status on any page ends the fetch there: error becomes
\* "HTTP <status>: <status text>", the invocation is no longer pending and has
\* issued no request beyond the failing one, and groups is left as it was
\* (nothing fetched by this invocation is placed in it).
C2_NotOkAborts ==
  [][NotOkStep =>
       /\ error' = StatusLine(last'.status)
       /\ loading' = FALSE
       /\ groups' = groups
       /\ BagCardinality(pending') = BagCardinality(pending) - 1
       /\ last'.inv \in BagToSet(pending)
       /\ last'.inv.requests = Len(last'.inv.served) + 1]_vars

\* page 2 of a fetch was answered with status 500 after page 1 brought subjects
C2_Witness ==
  /\ last.step = "failed"
  /\ last.status = 500
  /\ Len(Latest.served) = 1
  /\ Latest.all # <<>>
  /\ error = "HTTP 500: Internal Server Error"

\* C3: whenever a handleFetch has just ended in failure, groups is empty.
C3_FailureLeavesNoGroups ==
  last.step = "failed" => groups = NoGroups

\* C4: a handleFetch invoked with an empty token issues no request and ends
\* at once with the token message in error, groups empty and loading false.
C4_MissingTokenBeforeNetwork ==
  /\ \A inv \in BagToSet(pending) : inv.apiToken # ""
  /\ (last.step # "none" /\ Latest.apiToken = "") =>
        /\ last.step = "failed"
        /\ Latest.requests = 0
        /\ error = "Please provide your WaniKani API token."
        /\ groups = NoGroups
        /\ loading = FALSE

\* handleFetch was invoked with an empty token while another fetch was pending
C4_Witness ==
  /\ last.step = "failed"
  /\ Latest.apiToken = ""
  /\ error = TokenMessage
  /\ pending # EmptyBag

\* C5: a handleFetch invoked with a level specification that denotes no level
\* fails without issuing a request.
C5_UnparseableLevelNotFetched ==
  (last.step # "none" /\ parseLevels(Latest.level) = {}) =>
     /\ last.step = "failed"
     /\ Latest.requests = 0

\* the levels of the input that returned a subject with sentences
LevelsWithSentences ==
  { l \in parseLevels(Latest.level) :
      \E i \in DOMAIN Latest.all :
         /\ Latest.all[i].level = l
         /\ extractSentencesFromSubject(Latest.all[i]).value # <<>> }

\* C6: after a successful fetch for a valid level specification the keys of
\* groups are "Level <l>" for exactly the levels l of the input that returned
\* a subject with sentences.
C6_KeysPerLevel ==
  (last.step = "done" /\ parseLevels(Latest.level) # {}) =>
     DOMAIN groups = { "Level " \o ToString(l) : l \in LevelsWithSentences }

\* the fetched subjects a subject group was collected from
SubjectsOf(g) ==
  { Latest.all[i] : i \in { j \in DOMAIN Latest.all : Latest.all[j].id = g.subject_id } }

\* the sentences of g are the context sentences of s: one per entry, with the
\* ids <subject id>-ctx-<i>
FromContext(g, s) ==
  /\ Len(g.sentences) = Len(s.context_sentences.items)
  /\ \A i \in DOMAIN g.sentences :
        g.sentences[i].id = ToString(s.id) \o "-ctx-" \o ToString(i - 1)

HasGroup(s) == \E i \in DOMAIN Collected : Collected[i].subject_id = s.id

C8_ExtractionNeverFails ==
  (last.step # "awaiting" /\ Latest.requests > 0
     /\ Len(Latest.served) = Latest.requests) => last.step = "done"

\* C9: two exports of the same groups in the same mode deliver the same file
\* (filename and payload), whatever happens in between.
C9_ExportIdempotent ==
  [][exported' = exported => saved' = saved]_vars

\* C12: at most one handleFetch is in flight at any time, and loading is
\* false only when no request is pending.
C12_OneFetchInFlight ==
  /\ BagCardinality(pending) <= 1
  /\ pending # EmptyBag => loading

\* the ids of all sentence records of a level map, in order
SentenceIds(g) ==
  LET keys == KeysOf(DOMAIN g)
      ofGroup(it) == [i \in DOMAIN it.sentences |-> it.sentences[i].id]
      ofLevel(k) == Flat([i \in DOMAIN g[k] |-> ofGroup(g[k][i])])
  IN Flat([i \in DOMAIN keys |-> ofLevel(keys[i])])

\* C10: the sentence records of the groups of one successful fetch have
\* pairwise distinct ids.
C10_IdsUnique ==
  last.step = "done" =>
     LET ids == SentenceIds(groups)
     IN \A i, j \in DOMAIN ids : i # j => ids[i] # ids[j]

====
